---- MODULE Spec2Model ----
(***************************************************************************)
(* monza: cache-aside chain access (chain/chain.go), the prefetch pool of  *)
(* `run`/`stutter` (main.go cacheBlocks), the explorer pool                *)
(* (Explorer.startWorkers / Explorer.cacheBlocks) and the stutter scan.    *)
(***************************************************************************)
EXTENDS Integers, Sequences, FiniteSets, TLC

\* ------------------------------------------------------------------ bounds
\* Highest block index of the modelled remote chain (indices 1..MaxIndex).
MaxIndex == 3
\* Largest worker count given on the command line (workers \in -1..MaxWorkers).
MaxWorkers == 2
\* At most this many remote keys (block indices, log hashes) fail to fetch.
MaxFail == 1
\* The explorer makes at most this many prefetch calls.
MaxCalls == 2
\* A user of the Chain makes at most this many calls on it.
MaxOps == 3
\* A user of the Chain reopens it at most this many times.
MaxOpens == 2
\* Block timestamps of the stutter scans are 500 ms ticks, at most this many.
MaxTick == 8
\* The longer chains of the stutter scans have this many blocks.
MaxScanIndex == 7
\* run is given at most this many -n criteria.
MaxCriteria == 2

\* The modulus of the unsigned index arithmetic (2^32 in the program).
WordMod == 65536

\* ------------------------------------------------------------ remote chain
Indices == 1..MaxIndex

\* Hash of block i and of its k-th transaction, as opaque numbers.
BlockHash(i) == 100 + i
TxHash(i, k) == 200 + 10 * i + k

\* Block i of the remote chain carries one transaction when i is odd, none
\* when it is even.
TxsOf(i) == IF i % 2 = 1 THEN << TxHash(i, 1) >> ELSE << >>

LogHashes == { BlockHash(i) : i \in Indices } \cup { TxHash(i, 1) : i \in { j \in Indices : j % 2 = 1 } }

\* Remote keys that can fail: a block index, or the hash of a log.
RemoteKeys == Indices \cup LogHashes

VARIABLES
    mode,        \* which command runs: "run", "stutter", "explorer", "chain", "scan"
    net,         \* network magic of the endpoint the Chain is opened on
    disk,        \* [network -> [blocks, logs]]: the bbolt files <magic>.db
    ts,          \* [Indices -> millisecond timestamp] of the remote blocks
    failing,     \* remote keys whose fetch returns an error
    cancelled,   \* ctx.Done() is closed
    dbOpen,      \* the bbolt handle is open (Chain.Close not yet called)
    remoteCalls, \* [key -> number of remote fetches made for it]
    putCalls,    \* [key -> number of store writes made for it]
    wroteBy,     \* [network -> the keys a Chain opened on it has written]
    lateWrites,  \* the keys written after cacheBlocks returned an error
    from,        \* params.from
    to,          \* params.to (exclusive)
    workers,     \* params.workers
    dpc,         \* where the command's own goroutine is
    di,          \* the dispatch loop's i
    ret,         \* what cacheBlocks returned
    retVia,      \* the return statement it left by
    wpc,         \* [worker -> where the worker goroutine is]
    wjob,        \* [worker -> the block index (task) it received]
    wcall,       \* [worker -> the call that handed its task over]
    wblock,      \* [worker -> the block its Block call returned]
    werr,        \* [worker -> the error it is reporting]
    wg,          \* the WaitGroup counter
    waiter,      \* the goroutine of wg.Wait(); close(wgCh)
    call,        \* the number of the prefetch call under way (1 in run, stutter)
    etasks,      \* explorer: the keys the call under way submits, in order
    claimed,     \* [<<call, key>> -> the workers that received the task]
    attempts,    \* [<<call, key>> -> the fetch calls workers made for it]
    completed,   \* keys whose fetches a worker finished without error
    si,          \* the sequential scan's i
    out,         \* the lines printed
    scanReads,   \* Block/AllNotifications calls made by the sequential scan
    cmdErr,      \* the error the command returned
    notifications, \* params.notifications: name -> contract (0: nil, any)
    criteria,    \* the values of the -n flags, in the order given
    flags,       \* the --from and --to strings, and the endpoint's block count
    curr,        \* stutter: curr (NoBlock: nil)
    currTS,      \* stutter: currTS, in seconds
    lastStutterBlock, \* stutter: lastStutterBlock
    threshold,   \* stutter: the threshold flag, in milliseconds
    lastCall,    \* the last call made on the Chain by its user, and its outcome
    served,      \* [network -> [index -> the first successful Block's record, and when]]
    nops,        \* calls made on the Chain by its user
    opens        \* times the user has reopened the Chain

\* --------------------------------------------------------------- encoding
\* result.Block as the repository reads it: Index, Timestamp, Transactions.
RemoteBlock(i) == [Index |-> i, Timestamp |-> ts[i], Transactions |-> TxsOf(i)]

\* binary.LittleEndian.PutUint32(key, i): the 4-byte key of block i.
BlockKey(i) == << i % 256, (i \div 256) % 256, (i \div 65536) % 256, (i \div 16777216) % 256 >>

\* block.EncodeBinary: the fields written one after the other, the
\* transaction list prefixed by its length.
EncodeBinary(b) == << b.Index, b.Timestamp, Len(b.Transactions) >> \o b.Transactions

\* res.DecodeBinary(r); r.Err: reading past the end of the buffer is the
\* error, bytes left unread are not.
DecodeErr(data) == Len(data) < 3 \/ Len(data) < 3 + data[3]

DecodeBinary(data) == [Index |-> data[1], Timestamp |-> data[2], Transactions |-> SubSeq(data, 4, 3 + data[3])]

\* The notification events of the application log of hash h on the remote
\* chain: a sequence of executions, each a sequence of events.
RemoteLog(h) ==
    IF h < 200
    THEN << << [Name |-> "NewEpoch", ScriptHash |-> 1] >>,
            << [Name |-> "UpdateState", ScriptHash |-> 2], [Name |-> "Mint", ScriptHash |-> 1] >> >>
    ELSE IF h < 220
    THEN << << [Name |-> "Transfer", ScriptHash |-> 1] >>,
            << [Name |-> "Transfer", ScriptHash |-> 2], [Name |-> "AddPeer", ScriptHash |-> 2] >> >>
    ELSE << << [Name |-> "Transfer", ScriptHash |-> 2] >> >>

\* appLog.MarshalJSON: the executions, length first.
MarshalJSON(log) == << Len(log) >> \o log

\* res.UnmarshalJSON fails unless the whole value is one well-formed document.
UnmarshalErr(data) == Len(data) = 0 \/ Len(data) # 1 + data[1]

UnmarshalJSON(data) == SubSeq(data, 2, Len(data))

\* ----------------------------------------------------------------- errors
NilErr == [kind |-> "nil", key |-> 0]
FetchErr(k) == [kind |-> "fetch", key |-> k]
CacheReadErr(k) == [kind |-> "cache read", key |-> k]
InterruptedErr == [kind |-> "interrupted", key |-> 0]
WorkersErr == [kind |-> "invalid amount of workers", key |-> 0]
RangeErr == [kind |-> "range must contain at least two blocks", key |-> 0]

NoBlock == [Index |-> 0, Timestamp |-> 0, Transactions |-> << >>]

\* ------------------------------------------------------------------ store
EmptyDB == [blocks |-> << >>, logs |-> << >>]

\* bkt.Get: nil for an absent key (and for an absent bucket).
Get(bkt, key) == IF key \in DOMAIN bkt THEN bkt[key] ELSE << >>

\* bkt.Put after CreateBucketIfNotExists.
Put(bkt, key, val) == [k \in DOMAIN bkt \cup {key} |-> IF k = key THEN val ELSE bkt[k]]

\* Mutant: the lookup never finds the block.
blockAlwaysMiss(db, i) == [hit |-> FALSE, err |-> FALSE, res |-> NoBlock]

\* Chain.block: the cached block, a miss, or a read error.
block(db, i) ==
    LET data == Get(db.blocks, BlockKey(i)) IN
    IF ~dbOpen THEN [hit |-> FALSE, err |-> TRUE, res |-> NoBlock]
    ELSE IF Len(data) = 0 THEN [hit |-> FALSE, err |-> FALSE, res |-> NoBlock]
    ELSE IF DecodeErr(data) THEN [hit |-> FALSE, err |-> TRUE, res |-> NoBlock]
    ELSE [hit |-> TRUE, err |-> FALSE, res |-> DecodeBinary(data)]

\* An addBlock whose stored bytes depend on what the store holds already.
addBlockCounting(db, b) ==
    [db EXCEPT !.blocks = Put(db.blocks, BlockKey(b.Index),
                              EncodeBinary([b EXCEPT !.Timestamp = Cardinality(DOMAIN db.blocks)]))]

\* Chain.addBlock: the encoded block under its index key.
addBlock(db, b) == [db EXCEPT !.blocks = Put(db.blocks, BlockKey(b.Index), EncodeBinary(b))]

\* Chain.Block: cache lookup, else remote fetch and persist.
Block(db, i) ==
    LET cached == block(db, i) IN
    IF cached.err
    THEN [res |-> NoBlock, err |-> CacheReadErr(i), db |-> db, fetched |-> {}, wrote |-> {}]
    ELSE IF cached.hit
    THEN [res |-> cached.res, err |-> NilErr, db |-> db, fetched |-> {}, wrote |-> {}]
    ELSE IF i \in failing \/ i \notin DOMAIN ts
    THEN [res |-> NoBlock, err |-> FetchErr(i), db |-> db, fetched |-> {i}, wrote |-> {}]
    ELSE [res |-> RemoteBlock(i), err |-> NilErr, db |-> addBlock(db, RemoteBlock(i)),
          fetched |-> {i}, wrote |-> {RemoteBlock(i).Index}]

\* d.addBlock on a closed database.
CacheWriteErr(k) == [kind |-> "cache write", key |-> k]

\* The index of the block whose hash is h on the remote chain.
IndexOfHash(h) == h - BlockHash(0)

\* A lookup by hash that asks the cache first.
BlockByHashCached(db, h) == Block(db, IndexOfHash(h))

\* Chain.BlockByHash: always the remote fetch, then addBlock.
BlockByHash(db, h) ==
    LET i == IndexOfHash(h) IN
    IF i \in failing \/ i \notin DOMAIN ts
    THEN [res |-> NoBlock, err |-> FetchErr(i), db |-> db, fetched |-> {i}, wrote |-> {}]
    ELSE IF ~dbOpen
    THEN [res |-> RemoteBlock(i), err |-> CacheWriteErr(i), db |-> db, fetched |-> {i}, wrote |-> {}]
    ELSE [res |-> RemoteBlock(i), err |-> NilErr, db |-> addBlock(db, RemoteBlock(i)),
          fetched |-> {i}, wrote |-> {RemoteBlock(i).Index}]

\* Chain.applicationLog: the cached log, a miss, or a read error.
applicationLog(db, h) ==
    LET data == Get(db.logs, h) IN
    IF ~dbOpen THEN [hit |-> FALSE, err |-> TRUE, res |-> << >>]
    ELSE IF Len(data) = 0 THEN [hit |-> FALSE, err |-> FALSE, res |-> << >>]
    ELSE IF UnmarshalErr(data) THEN [hit |-> FALSE, err |-> TRUE, res |-> << >>]
    ELSE [hit |-> TRUE, err |-> FALSE, res |-> UnmarshalJSON(data)]

\* Chain.addApplicationLog.
addApplicationLog(db, h, log) == [db EXCEPT !.logs = Put(db.logs, h, MarshalJSON(log))]

\* Chain.ApplicationLog: cache lookup, else remote fetch and persist.
ApplicationLog(db, h) ==
    LET cached == applicationLog(db, h) IN
    IF cached.err
    THEN [res |-> << >>, err |-> CacheReadErr(h), db |-> db, fetched |-> {}, wrote |-> {}]
    ELSE IF cached.hit
    THEN [res |-> cached.res, err |-> NilErr, db |-> db, fetched |-> {}, wrote |-> {}]
    ELSE IF h \in failing
    THEN [res |-> << >>, err |-> FetchErr(h), db |-> db, fetched |-> {h}, wrote |-> {}]
    ELSE [res |-> RemoteLog(h), err |-> NilErr, db |-> addApplicationLog(db, h, RemoteLog(h)),
          fetched |-> {h}, wrote |-> {h}]

\* res = append(res, execution.Events...) over the executions of a log.
RECURSIVE Events(_)
Events(log) == IF Len(log) = 0 THEN << >> ELSE Head(log) \o Events(Tail(log))

\* A gathering that returns the events it has when a lookup fails.
RECURSIVE GatherPartial(_, _, _, _, _)
GatherPartial(db, hs, res, fetched, wrote) ==
    IF Len(hs) = 0
    THEN [res |-> res, err |-> NilErr, db |-> db, fetched |-> fetched, wrote |-> wrote,
          seen |-> << >>]
    ELSE LET r == ApplicationLog(db, Head(hs)) IN
         IF r.err # NilErr
         THEN [res |-> res, err |-> r.err, db |-> r.db,
               fetched |-> fetched \cup r.fetched, wrote |-> wrote \cup r.wrote,
               seen |-> << Head(hs) >>]
         ELSE [GatherPartial(r.db, Tail(hs), res \o Events(r.res),
                             fetched \cup r.fetched, wrote \cup r.wrote)
               EXCEPT !.seen = << Head(hs) >> \o @]

\* The lookups of Chain.AllNotifications over the hashes hs still to do,
\* with the events res gathered so far; the first failing lookup ends it.
\* seen lists the hashes ApplicationLog was called with, in the order of the calls.
RECURSIVE Gather(_, _, _, _, _)
Gather(db, hs, res, fetched, wrote) ==
    IF Len(hs) = 0
    THEN [res |-> res, err |-> NilErr, db |-> db, fetched |-> fetched, wrote |-> wrote,
          seen |-> << >>]
    ELSE LET r == ApplicationLog(db, Head(hs)) IN
         IF r.err # NilErr
         THEN [res |-> << >>, err |-> r.err, db |-> r.db,
               fetched |-> fetched \cup r.fetched, wrote |-> wrote \cup r.wrote,
               seen |-> << Head(hs) >>]
         ELSE [Gather(r.db, Tail(hs), res \o Events(r.res),
                      fetched \cup r.fetched, wrote \cup r.wrote)
               EXCEPT !.seen = << Head(hs) >> \o @]

\* A gathering that reads the transactions' logs before the block's.
AllNotificationsTxFirst(db, b) == Gather(db, b.Transactions \o << BlockHash(b.Index) >>, << >>, {}, {})

\* Chain.AllNotifications: the log of the block hash, then of each transaction.
AllNotifications(db, b) == Gather(db, << BlockHash(b.Index) >> \o b.Transactions, << >>, {}, {})

\* Counters of remote fetches and store writes, raised for the keys in S.
Bump(f, S) == [k \in DOMAIN f |-> IF k \in S THEN f[k] + 1 ELSE f[k]]

\* ------------------------------------------------------- cacheBlocks (main.go)
Workers == 1..MaxWorkers

chainVars == << net, disk, ts, failing, dbOpen, remoteCalls, putCalls, wroteBy, lateWrites >>
poolVars == << wpc, wjob, wcall, wblock, werr, wg, waiter, call, etasks, claimed, attempts, completed >>

TaskIds == (1..MaxCalls) \X RemoteKeys
callVars == << dpc, di, ret, retVia, cmdErr >>
scanVars == << si, out, scanReads, curr, currTS, lastStutterBlock >>
paramVars == << mode, from, to, workers, notifications, criteria, flags, threshold >>
apiVars == << lastCall, served, nops, opens >>
vars == << chainVars, poolVars, callVars, scanVars, paramVars, apiVars, cancelled >>

\* uint32 arithmetic wraps; the modulus is scaled down to the integers TLC has.
Uint32(x) == x % WordMod

\* A database file that is the same for every network.
DbPathShared(n) == 1

\* dbPath := path.Join(dir, strconv.Itoa(int(n))+".db"): the file of network n.
DbPath(n) == n

\* The effect of one Chain call on the open store and on the counters.
Apply(r) ==
    /\ disk' = [disk EXCEPT ![DbPath(net)] = r.db]
    /\ remoteCalls' = Bump(remoteCalls, r.fetched)
    /\ putCalls' = Bump(putCalls, r.wrote)
    /\ wroteBy' = [wroteBy EXCEPT ![net] = @ \cup r.wrote]
    /\ lateWrites' = IF ret # NilErr THEN lateWrites \cup r.wrote ELSE lateWrites
    /\ UNCHANGED << net, ts, failing, dbOpen >>

\* stutter's check before the prefetch: to-from < 2, in uint32.
TooShort == Uint32(to - from) < 2

\* Mutant: only a negative worker count is refused.
BadWorkersNegative == workers < 0

\* cacheBlocks' check of the worker count.
BadWorkers == workers <= 0

\* Mutant: the ctx.Done() case returns nil.
CtxReturnNil == NilErr

\* What cacheBlocks returns when its select takes the ctx.Done() case.
CtxReturn == InterruptedErr

\* The command enters cacheBlocks: the worker count is checked, then the
\* workers are started (go func ... for i < p.workers).
Enter ==
    /\ dpc = "entry"
    /\ mode \in {"run", "stutter"}
    /\ IF mode = "stutter" /\ TooShort
       THEN /\ dpc' = "deferred"
            /\ cmdErr' = RangeErr
            /\ UNCHANGED << ret, retVia, wpc, di >>
       ELSE IF BadWorkers
       THEN /\ dpc' = "returned"
            /\ ret' = WorkersErr
            /\ retVia' = "workers"
            /\ UNCHANGED << cmdErr, wpc, di >>
       ELSE /\ dpc' = "loop"
            /\ di' = from
            /\ wpc' = [w \in Workers |-> IF w <= workers THEN "select" ELSE "none"]
            /\ UNCHANGED << cmdErr, ret, retVia >>
    /\ UNCHANGED << chainVars, wjob, wcall, wblock, werr, wg, waiter, call, etasks, claimed, attempts,
                    completed, scanVars, paramVars, apiVars, cancelled >>

\* The dispatch loop and the final select share their ctx.Done() and errCh
\* cases; selecting marks which select the dispatcher is at.
AtSelect == (dpc = "loop" /\ di < to) \/ dpc = "final"

\* case <-ctx.Done(): return errors.New("interrupted")
DispatchCtx ==
    /\ AtSelect
    /\ cancelled
    /\ ret' = CtxReturn
    /\ retVia' = IF dpc = "loop" THEN "ctx loop" ELSE "ctx final"
    /\ dpc' = "returned"
    /\ UNCHANGED << chainVars, poolVars, di, cmdErr, scanVars, paramVars, apiVars, cancelled >>

\* Mutant: the selects have no errCh case.
NeverReport(w) == FALSE

\* A worker blocked in out <- err can hand its error over.
CanReport(w) == wpc[w] = "send"

\* A worker that goes back to its select after the report.
AfterSendLoops == "select"

\* A worker that calls wg.Done() after its report.
AfterSendDone == "wgdone"

\* out <- err; return: where the worker is after its report is received.
AfterSend == "exit"

\* case err := <-errCh: return err (the rendezvous with worker w's out <- err,
\* after which the worker returns).
DispatchErr(w) ==
    /\ AtSelect
    /\ CanReport(w)
    /\ ret' = werr[w]
    /\ retVia' = IF dpc = "loop" THEN "err loop" ELSE "err final"
    /\ dpc' = "returned"
    /\ wpc' = [wpc EXCEPT ![w] = AfterSend]
    /\ UNCHANGED << chainVars, wjob, wcall, wblock, werr, wg, waiter, call, etasks, claimed, attempts,
                    completed, di, cmdErr, scanVars, paramVars, apiVars, cancelled >>

\* Mutant: the loop index is not advanced after a hand-over.
SameIndex(i) == i

\* The loop's i++.
NextIndex(i) == Uint32(i + 1)

\* A channel that takes a task whether or not its worker is receiving.
AlwaysReceives(w) == w <= workers

\* jobCh is unbuffered: the send goes through when worker w is in its select,
\* at case block, ok := <-ch.
CanReceive(w) == wpc[w] = "select"

\* case jobCh <- i: the rendezvous with worker w's receive in its select.
DispatchJob(w) ==
    /\ dpc = "loop"
    /\ di < to
    /\ CanReceive(w)
    /\ wjob' = [wjob EXCEPT ![w] = di]
    /\ wcall' = [wcall EXCEPT ![w] = call]
    /\ wpc' = [wpc EXCEPT ![w] = "add"]
    /\ claimed' = [claimed EXCEPT ![<< call, di >>] = @ \cup {w}]
    /\ di' = NextIndex(di)
    /\ UNCHANGED << chainVars, wblock, werr, wg, waiter, call, etasks, attempts, completed,
                    dpc, ret, retVia, cmdErr, scanVars, paramVars, apiVars, cancelled >>

\* The loop ends; go func() { wg.Wait(); close(wgCh) }() is started.
LoopEnd ==
    /\ dpc = "loop"
    /\ ~(di < to)
    /\ dpc' = "final"
    /\ waiter' = "waiting"
    /\ UNCHANGED << chainVars, wpc, wjob, wcall, wblock, werr, wg, call, etasks, claimed, attempts,
                    completed, di, ret, retVia, cmdErr, scanVars, paramVars, apiVars, cancelled >>

\* wg.Wait() returns when the counter is zero; close(wgCh).
WaiterClose ==
    /\ waiter = "waiting"
    /\ wg = 0
    /\ waiter' = "closed"
    /\ UNCHANGED << chainVars, wpc, wjob, wcall, wblock, werr, wg, call, etasks, claimed, attempts,
                    completed, callVars, scanVars, paramVars, apiVars, cancelled >>

\* case <-wgCh: return nil
FinalWg ==
    /\ dpc = "final"
    /\ waiter = "closed"
    /\ ret' = NilErr
    /\ retVia' = "wg"
    /\ dpc' = "returned"
    /\ UNCHANGED << chainVars, poolVars, di, cmdErr, scanVars, paramVars, apiVars, cancelled >>

\* Worker: case <-ctx.Done(): return
WorkerCtx(w) ==
    /\ wpc[w] = "select"
    /\ cancelled
    /\ wpc' = [wpc EXCEPT ![w] = "exit"]
    /\ UNCHANGED << chainVars, wjob, wcall, wblock, werr, wg, waiter, call, etasks, claimed, attempts,
                    completed, callVars, scanVars, paramVars, apiVars, cancelled >>

\* Worker: wg.Add(1), after the receive.
WorkerAdd(w) ==
    /\ wpc[w] = "add"
    /\ wg' = wg + 1
    /\ wpc' = [wpc EXCEPT ![w] = "block"]
    /\ UNCHANGED << chainVars, wjob, wcall, wblock, werr, waiter, call, etasks, claimed, attempts,
                    completed, callVars, scanVars, paramVars, apiVars, cancelled >>

\* Worker: b, err := p.blockchain.Block(block)
WorkerBlock(w) ==
    /\ wpc[w] = "block"
    /\ LET r == Block(disk[DbPath(net)], wjob[w]) IN
       /\ Apply(r)
       /\ attempts' = [attempts EXCEPT ![<< wcall[w], wjob[w] >>] = @ + 1]
       /\ IF r.err # NilErr
          THEN /\ werr' = [werr EXCEPT ![w] = r.err]
               /\ wpc' = [wpc EXCEPT ![w] = "send"]
               /\ UNCHANGED wblock
          ELSE /\ wblock' = [wblock EXCEPT ![w] = r.res]
               /\ wpc' = [wpc EXCEPT ![w] = "notif"]
               /\ UNCHANGED werr
    /\ UNCHANGED << wjob, wcall, wg, waiter, call, etasks, claimed, completed, callVars, scanVars,
                    paramVars, apiVars, cancelled >>

\* Worker: _, err = p.blockchain.AllNotifications(b)
WorkerNotif(w) ==
    /\ wpc[w] = "notif"
    /\ LET r == AllNotifications(disk[DbPath(net)], wblock[w]) IN
       /\ Apply(r)
       /\ IF r.err # NilErr
          THEN /\ werr' = [werr EXCEPT ![w] = r.err]
               /\ wpc' = [wpc EXCEPT ![w] = "send"]
               /\ UNCHANGED completed
          ELSE /\ completed' = completed \cup {wjob[w]}
               /\ wpc' = [wpc EXCEPT ![w] = "wgdone"]
               /\ UNCHANGED werr
    /\ UNCHANGED << wjob, wcall, wblock, wg, waiter, call, etasks, claimed, attempts, callVars, scanVars,
                    paramVars, apiVars, cancelled >>

\* Worker: bar.Add(1); wg.Done(), then back to the select.
WorkerDone(w) ==
    /\ wpc[w] = "wgdone"
    /\ wg' = wg - 1
    /\ wpc' = [wpc EXCEPT ![w] = "select"]
    /\ UNCHANGED << chainVars, wjob, wcall, wblock, werr, waiter, call, etasks, claimed, attempts,
                    completed, callVars, scanVars, paramVars, apiVars, cancelled >>

\* os.Interrupt: signal.NotifyContext cancels ctx.
Interrupt ==
    /\ ~cancelled
    /\ dpc # "exit"
    /\ cancelled' = TRUE
    /\ UNCHANGED << chainVars, poolVars, callVars, scanVars, paramVars, apiVars >>

\* ------------------------------------------------ the explorer's pool
explorerUnchanged == << si, out, scanReads, curr, currTS, lastStutterBlock, paramVars, apiVars,
                        ret, retVia >>

\* explorer: e.startWorkers(defaultExploreWorkers), then e.Run().
ExplorerStart ==
    /\ mode = "explorer"
    /\ dpc = "entry"
    /\ wpc' = [w \in Workers |-> IF w <= workers THEN "eidle" ELSE "none"]
    /\ dpc' = "ui"
    /\ UNCHANGED << chainVars, wjob, wcall, wblock, werr, wg, waiter, call, etasks, claimed,
                    attempts, completed, di, cmdErr, explorerUnchanged, cancelled >>

\* The keys from..to, both included: for i := from; i <= to; i++.
IndexTasks(f, t) == [k \in 1..(t - f + 1) |-> f + k - 1]

\* The user interface calls e.cacheBlocks(f, t).
UICacheBlocks(f, t) ==
    /\ dpc = "ui"
    /\ call < MaxCalls
    /\ call' = call + 1
    /\ etasks' = IndexTasks(f, t)
    /\ di' = 1
    /\ dpc' = "eloop"
    /\ UNCHANGED << chainVars, wpc, wjob, wcall, wblock, werr, wg, waiter, claimed, attempts,
                    completed, cmdErr, explorerUnchanged, cancelled >>

\* The user interface opens block i: e.chain.Block(i), panic on an error,
\* then e.cacheNotifications(block) over the block's transactions.
UICacheNotifications(i) ==
    /\ dpc = "ui"
    /\ call < MaxCalls
    /\ LET r == Block(disk[DbPath(net)], i) IN
       /\ Apply(r)
       /\ IF r.err # NilErr
          THEN /\ dpc' = "panic"
               /\ cmdErr' = r.err
               /\ UNCHANGED << call, etasks, di >>
          ELSE /\ call' = call + 1
               /\ etasks' = r.res.Transactions
               /\ di' = 1
               /\ dpc' = "eloop"
               /\ UNCHANGED cmdErr
    /\ UNCHANGED << wpc, wjob, wcall, wblock, werr, wg, waiter, claimed, attempts, completed,
                    explorerUnchanged, cancelled >>

\* Submitter: e.wg.Add(1), before the select that hands the task over.
ESubmitAdd ==
    /\ dpc = "eloop"
    /\ di <= Len(etasks)
    /\ wg' = wg + 1
    /\ dpc' = "eselect"
    /\ UNCHANGED << chainVars, wpc, wjob, wcall, wblock, werr, waiter, call, etasks, claimed,
                    attempts, completed, di, cmdErr, explorerUnchanged, cancelled >>

\* Submitter: case <-e.ctx.Done(): return
ESelectCtx ==
    /\ dpc \in {"eselect", "efinal"}
    /\ cancelled
    /\ dpc' = "ui"
    /\ UNCHANGED << chainVars, poolVars, di, cmdErr, explorerUnchanged, cancelled >>

\* Submitter: case err := <-e.errCh: panic(err)
ESelectErr(w) ==
    /\ dpc \in {"eselect", "efinal"}
    /\ wpc[w] = "esend"
    /\ dpc' = "panic"
    /\ cmdErr' = werr[w]
    /\ wpc' = [wpc EXCEPT ![w] = AfterSend]
    /\ UNCHANGED << chainVars, wjob, wcall, wblock, werr, wg, waiter, call, etasks, claimed,
                    attempts, completed, di, explorerUnchanged, cancelled >>

\* Submitter: case e.jobCh <- fetchTask{...}: the rendezvous with worker w.
ESelectJob(w) ==
    /\ dpc = "eselect"
    /\ wpc[w] = "eidle"
    /\ wjob' = [wjob EXCEPT ![w] = etasks[di]]
    /\ wcall' = [wcall EXCEPT ![w] = call]
    /\ wpc' = [wpc EXCEPT ![w] = "efetch"]
    /\ claimed' = [claimed EXCEPT ![<< call, etasks[di] >>] = @ \cup {w}]
    /\ di' = NextIndex(di)
    /\ dpc' = "eloop"
    /\ UNCHANGED << chainVars, wblock, werr, wg, waiter, call, etasks, attempts,
                    completed, cmdErr, explorerUnchanged, cancelled >>

\* Submitter: the loop ends; go func() { e.wg.Wait(); close(wgCh) }().
ELoopEnd ==
    /\ dpc = "eloop"
    /\ ~(di <= Len(etasks))
    /\ dpc' = "efinal"
    /\ waiter' = "ewaiting"
    /\ UNCHANGED << chainVars, wpc, wjob, wcall, wblock, werr, wg, call, etasks, claimed,
                    attempts, completed, di, cmdErr, explorerUnchanged, cancelled >>

\* A Wait that returns while one task is still counted.
WaitDoneEarly(n) == n <= 1

\* sync.WaitGroup.Wait blocks until the counter is zero.
WaitDone(n) == n = 0

\* e.wg.Wait() returns at zero; close(wgCh).
EWaiterClose ==
    /\ waiter = "ewaiting"
    /\ WaitDone(wg)
    /\ waiter' = "eclosed"
    /\ UNCHANGED << chainVars, wpc, wjob, wcall, wblock, werr, wg, call, etasks, claimed,
                    attempts, completed, di, dpc, cmdErr, explorerUnchanged, cancelled >>

\* Submitter: case <-wgCh: return
EFinalWg ==
    /\ dpc = "efinal"
    /\ waiter = "eclosed"
    /\ dpc' = "ui"
    /\ UNCHANGED << chainVars, poolVars, di, cmdErr, explorerUnchanged, cancelled >>

\* Explorer worker: case <-ctx.Done(): return
EWorkerCtx(w) ==
    /\ dpc # "panic"
    /\ wpc[w] = "eidle"
    /\ cancelled
    /\ wpc' = [wpc EXCEPT ![w] = "exit"]
    /\ UNCHANGED << chainVars, wjob, wcall, wblock, werr, wg, waiter, call, etasks, claimed,
                    attempts, completed, di, dpc, cmdErr, explorerUnchanged, cancelled >>

\* fetchTask.txHash != nil: the task asks for a log, not for a block.
IsLogTask(key) == key \in LogHashes

\* Explorer worker: ApplicationLog(*task.txHash) or Block(task.index); the
\* error goes to out, else e.wg.Done() follows.
EWorkerFetch(w) ==
    /\ dpc # "panic"
    /\ wpc[w] = "efetch"
    /\ LET r == IF IsLogTask(wjob[w]) THEN ApplicationLog(disk[DbPath(net)], wjob[w])
                ELSE Block(disk[DbPath(net)], wjob[w]) IN
       /\ Apply(r)
       /\ attempts' = [attempts EXCEPT ![<< wcall[w], wjob[w] >>] = @ + 1]
       /\ IF r.err # NilErr
          THEN /\ werr' = [werr EXCEPT ![w] = r.err]
               /\ wpc' = [wpc EXCEPT ![w] = "esend"]
               /\ UNCHANGED completed
          ELSE /\ completed' = completed \cup {wjob[w]}
               /\ wpc' = [wpc EXCEPT ![w] = "edone"]
               /\ UNCHANGED werr
    /\ UNCHANGED << wjob, wcall, wblock, wg, waiter, call, etasks, claimed, di, dpc, cmdErr,
                    explorerUnchanged, cancelled >>

\* Explorer worker: e.wg.Done(), then back to the select.
EWorkerDone(w) ==
    /\ dpc # "panic"
    /\ wpc[w] = "edone"
    /\ wg' = wg - 1
    /\ wpc' = [wpc EXCEPT ![w] = "eidle"]
    /\ UNCHANGED << chainVars, wjob, wcall, wblock, werr, waiter, call, etasks, claimed,
                    attempts, completed, di, dpc, cmdErr, explorerUnchanged, cancelled >>

\* ------------------------------------------------- the sequential scans
\* Mutant: the error of cacheBlocks is ignored.
ScanAlways == TRUE

\* run, stutter: err := cacheBlocks(...); if err != nil { return err }
ScanMayStart == ret = NilErr

AfterPrefetch ==
    /\ dpc = "returned"
    /\ IF ScanMayStart
       THEN /\ dpc' = "scan"
            /\ si' = from
            /\ UNCHANGED cmdErr
       ELSE /\ dpc' = "deferred"
            /\ cmdErr' = ret
            /\ UNCHANGED si
    /\ UNCHANGED << chainVars, poolVars, di, ret, retVia, out, scanReads, curr, currTS,
                    lastStutterBlock, paramVars, apiVars, cancelled >>

\* ErrInvalidInterval and the block count errors of parseInterval.
IntervalErr == [kind |-> "invalid block interval", key |-> 0]
LatestErr == [kind |-> "latest block is less than from value", key |-> 0]

\* strconv.Atoi on the digits of a flag: an error unless the text is a number
\* (kind "num", or the part after the prefix of an "m" or "p" value).
AtoiErr(str, prefix) == str.kind # prefix

\* parseInterval(fromStr, toStr, cli), h being cli.GetBlockCount(): a flag is
\* empty, a number, a number after m or p, or something else; v is the int
\* Atoi returns for it; uint32(v) keeps the low bits.
parseInterval(fromStr, toStr, h) ==
    LET bad == [from |-> 0, to |-> 0, err |-> IntervalErr]
        late == [from |-> 0, to |-> 0, err |-> LatestErr]
    IN
    IF fromStr.kind = "empty" THEN bad
    ELSE IF fromStr.kind = "m"
    THEN IF AtoiErr(fromStr, "m") \/ fromStr.v <= 0 THEN bad
         ELSE IF Uint32(fromStr.v) >= h THEN late
         ELSE [from |-> Uint32(h - Uint32(fromStr.v)), to |-> h, err |-> NilErr]
    ELSE IF AtoiErr(fromStr, "num") \/ fromStr.v <= 0 THEN bad
    ELSE LET f == Uint32(fromStr.v) IN
         IF toStr.kind = "empty"
         THEN IF h <= f THEN late ELSE [from |-> f, to |-> h, err |-> NilErr]
         ELSE IF toStr.kind = "p"
         THEN IF AtoiErr(toStr, "p") \/ toStr.v <= 0 THEN bad
              ELSE [from |-> f, to |-> Uint32(f + Uint32(toStr.v)), err |-> NilErr]
         ELSE IF AtoiErr(toStr, "num") \/ toStr.v <= 0 THEN bad
         ELSE IF Uint32(toStr.v) <= f THEN bad
         ELSE [from |-> f, to |-> Uint32(toStr.v), err |-> NilErr]

\* monza, stutter: the interval is parsed after the Chain is opened; an error
\* ends the command.
ParseFlags ==
    /\ dpc = "flags"
    /\ LET r == parseInterval(flags.fromStr, flags.toStr, flags.height) IN
       IF r.err # NilErr
       THEN /\ cmdErr' = r.err
            /\ dpc' = "deferred"
            /\ UNCHANGED << from, to >>
       ELSE /\ from' = r.from
            /\ to' = r.to
            /\ dpc' = "entry"
            /\ UNCHANGED cmdErr
    /\ UNCHANGED << chainVars, poolVars, di, ret, retVia, scanVars, mode, workers, notifications,
                    criteria, flags, threshold, apiVars, cancelled >>

\* strings.ToLower on the contract part of a criterion.
ToLower(c) == IF c = "GAS" THEN "gas" ELSE IF c = "NEO" THEN "neo" ELSE c

\* The script hash a contract name stands for, 0 when it is not one:
\* cli.GetNativeContractHash for gas and neo, util.Uint160DecodeStringLE else.
ContractHash(c) ==
    CASE c = "gas" -> 1
      [] c = "neo" -> 3
      [] c = "02" -> 2
      [] OTHER -> 0

\* parseNotifications over the criteria cs still to read, res being the map
\* built so far: res[name] = contract, a later criterion of the same name
\* taking the place of an earlier one.
RECURSIVE parseNotifications(_, _)
parseNotifications(cs, res) ==
    IF Len(cs) = 0 THEN [res |-> res, err |-> NilErr]
    ELSE LET name == Head(cs).name
             contractName == ToLower(Head(cs).contract)
             set(h) == [n \in DOMAIN res \cup {name} |-> IF n = name THEN h ELSE res[n]]
         IN IF contractName = "*"
            THEN parseNotifications(Tail(cs), set(0))
            ELSE IF ContractHash(contractName) = 0
                 THEN [res |-> << >>, err |-> [kind |-> "invalid contract name", key |-> 0]]
                 ELSE parseNotifications(Tail(cs), set(ContractHash(contractName)))

\* A matcher that looks at the name alone.
MatchesNameOnly(ev) == ev.Name \in DOMAIN notifications

\* run: contract, ok := p.notifications[ev.Name]; contract != nil && !Equals.
Matches(ev) ==
    /\ ev.Name \in DOMAIN notifications
    /\ notifications[ev.Name] = 0 \/ notifications[ev.Name] = ev.ScriptHash

\* run: switch ev.Name.
Formatter(name) ==
    CASE name = "Transfer" -> "PrintTransfer"
      [] name = "NewEpoch" -> "PrintNewEpoch"
      [] OTHER -> "PrintEvent"

\* A run that prints the events of a block last first.
RECURSIVE EventLinesReversed(_, _)
EventLinesReversed(b, evs) ==
    IF Len(evs) = 0 THEN << >>
    ELSE EventLinesReversed(b, Tail(evs))
         \o (IF Matches(Head(evs))
             THEN << [kind |-> "event", index |-> b.Index, name |-> Head(evs).Name,
                      emitter |-> Head(evs).ScriptHash, fmt |-> Formatter(Head(evs).Name)] >>
             ELSE << >>)

\* The lines run prints for the events evs of block b.
RECURSIVE EventLines(_, _)
EventLines(b, evs) ==
    IF Len(evs) = 0 THEN << >>
    ELSE (IF Matches(Head(evs))
          THEN << [kind |-> "event", index |-> b.Index, name |-> Head(evs).Name,
                   emitter |-> Head(evs).ScriptHash, fmt |-> Formatter(Head(evs).Name)] >>
          ELSE << >>) \o EventLines(b, Tail(evs))

\* A scan that stays in its loop when a fetch fails.
ScanErrGoesOn == "scan"

\* return fmt.Errorf("cannot fetch block %d: %w", i, err): the scan is left.
AfterScanErr == "deferred"

\* One iteration of run's loop over from <= i < to.
ScanRun ==
    /\ dpc = "scan"
    /\ mode = "run"
    /\ si < to
    /\ LET rb == Block(disk[DbPath(net)], si)
           rn == AllNotifications(rb.db, rb.res)
       IN IF rb.err # NilErr
          THEN /\ Apply(rb)
               /\ scanReads' = scanReads + 1
               /\ cmdErr' = rb.err
               /\ dpc' = AfterScanErr
               /\ UNCHANGED << si, out >>
          ELSE /\ Apply([rn EXCEPT !.fetched = @ \cup rb.fetched, !.wrote = @ \cup rb.wrote])
               /\ scanReads' = scanReads + 2
               /\ IF rn.err # NilErr
                  THEN /\ cmdErr' = rn.err
                       /\ dpc' = AfterScanErr
                       /\ UNCHANGED << si, out >>
                  ELSE /\ out' = out \o EventLines(rb.res, rn.res)
                       /\ si' = NextIndex(si)
                       /\ UNCHANGED << cmdErr, dpc >>
    /\ UNCHANGED << poolVars, di, ret, retVia, curr, currTS, lastStutterBlock,
                    paramVars, apiVars, cancelled >>

\* stutter: currTS = time.Unix(int64(b.Timestamp/1e3), 0), whole seconds.
UnixSeconds(b) == b.Timestamp \div 1000

\* A comparison that also reports a delta equal to the threshold.
IsStutterNonStrict(prevTS, curTS) == (curTS - prevTS) * 1000 >= threshold

\* stutter: blockDelta <= threshold is the pair that is not reported;
\* blockDelta is a difference of whole seconds, the threshold is in ms.
IsStutter(prevTS, curTS) == ~((curTS - prevTS) * 1000 <= threshold)

\* A scan that counts the skipped blocks without the test skippedBlocks > 1.
StutterLinesUnguarded(prev, b, prevTS, curTS) ==
    (IF lastStutterBlock > 0
     THEN << [kind |-> "skipped", n |-> Uint32(prev.Index - lastStutterBlock)] >>
     ELSE << >>)
    \o << [kind |-> "block", index |-> prev.Index],
          [kind |-> "stutter", index |-> b.Index, delta |-> curTS - prevTS] >>

\* A scan that reports skipped blocks even when no stutter was printed yet.
StutterLinesFromStart(prev, b, prevTS, curTS) ==
    (IF Uint32(prev.Index - lastStutterBlock) > 1
     THEN << [kind |-> "skipped", n |-> Uint32(prev.Index - lastStutterBlock) - 1] >>
     ELSE << >>)
    \o << [kind |-> "block", index |-> prev.Index],
          [kind |-> "stutter", index |-> b.Index, delta |-> curTS - prevTS] >>

\* stutter: the lines printed for the stutter pair (prev, b).
StutterLines(prev, b, prevTS, curTS) ==
    LET skippedBlocks == Uint32(prev.Index - lastStutterBlock) IN
    (IF lastStutterBlock > 0 /\ skippedBlocks > 1
     THEN << [kind |-> "skipped", n |-> skippedBlocks - 1] >>
     ELSE << >>)
    \o << [kind |-> "block", index |-> prev.Index],
          [kind |-> "stutter", index |-> b.Index, delta |-> curTS - prevTS] >>

\* One iteration of stutter's loop over from <= i < to.
ScanStutter ==
    /\ dpc = "scan"
    /\ mode = "stutter"
    /\ si < to
    /\ LET rb == Block(disk[DbPath(net)], si) IN
       /\ Apply(rb)
       /\ scanReads' = scanReads + 1
       /\ IF rb.err # NilErr
          THEN /\ cmdErr' = rb.err
               /\ dpc' = AfterScanErr
               /\ UNCHANGED << si, out, curr, currTS, lastStutterBlock >>
          ELSE /\ curr' = rb.res
               /\ currTS' = UnixSeconds(rb.res)
               /\ si' = NextIndex(si)
               /\ UNCHANGED << cmdErr, dpc >>
               /\ IF curr # NoBlock /\ IsStutter(currTS, UnixSeconds(rb.res))
                  THEN /\ out' = out \o StutterLines(curr, rb.res, currTS, UnixSeconds(rb.res))
                       /\ lastStutterBlock' = rb.res.Index
                  ELSE UNCHANGED << out, lastStutterBlock >>
    /\ UNCHANGED << poolVars, di, ret, retVia, paramVars, apiVars, cancelled >>

\* The scan's loop ends: return nil.
ScanEnd ==
    /\ dpc = "scan"
    /\ ~(si < to)
    /\ dpc' = "deferred"
    /\ UNCHANGED << chainVars, poolVars, di, ret, retVia, cmdErr, scanVars, paramVars, apiVars,
                    cancelled >>

\* defer func() { blockchain.Close(); cancel() }()
Deferred ==
    /\ dpc = "deferred"
    /\ dpc' = "exit"
    /\ dbOpen' = FALSE
    /\ cancelled' = TRUE
    /\ UNCHANGED << net, disk, ts, failing, remoteCalls, putCalls, wroteBy, lateWrites, poolVars, di, ret,
                    retVia, cmdErr, scanVars, paramVars, apiVars >>

\* ------------------------------------------------------------------- Init
\* The range is given to the model directly, not through the flags.
NoFlags == [fromStr |-> [kind |-> "empty", v |-> 0], toStr |-> [kind |-> "empty", v |-> 0], height |-> 0]

\* -n Transfer:*
DefaultCriteria == << [name |-> "Transfer", contract |-> "*"] >>

Networks == {1, 2}

\* A chain whose timestamps are 15 s apart.
SteadyTS == [i \in Indices |-> 15000 * i]

ZeroCalls == [k \in RemoteKeys |-> 0]

NotServed == [blk |-> NoBlock, opens |-> 0]

NoCall == [op |-> "none", key |-> 0, err |-> NilErr, res |-> NoBlock, fetched |-> {}, wrote |-> {},
           had |-> FALSE, data |-> << >>, repeat |-> FALSE, first |-> NoBlock, reopened |-> FALSE]

\* Everything but the command's position.
InitRestState ==
    /\ di = 0
    /\ ret = NilErr
    /\ retVia = "none"
    /\ cmdErr = NilErr
    /\ wpc = [w \in Workers |-> "none"]
    /\ wjob = [w \in Workers |-> 0]
    /\ wcall = [w \in Workers |-> 0]
    /\ wblock = [w \in Workers |-> NoBlock]
    /\ werr = [w \in Workers |-> NilErr]
    /\ wg = 0
    /\ waiter = "none"
    /\ etasks = << >>
    /\ claimed = [t \in TaskIds |-> {}]
    /\ attempts = [t \in TaskIds |-> 0]
    /\ completed = {}
    /\ si = 0
    /\ out = << >>
    /\ scanReads = 0
    /\ curr = NoBlock
    /\ currTS = 0
    /\ lastStutterBlock = 0
    /\ cancelled = FALSE
    /\ dbOpen = TRUE
    /\ remoteCalls = ZeroCalls
    /\ putCalls = ZeroCalls
    /\ wroteBy = [n \in Networks |-> {}]
    /\ lateWrites = {}
    /\ lastCall = NoCall
    /\ served = [n \in Networks |-> [i \in Indices |-> NotServed]]
    /\ nops = 0
    /\ opens = 0

\* The command is about to enter cacheBlocks.
InitPoolState ==
    /\ dpc = "entry"
    /\ InitRestState

\* run or stutter on a cold cache: a range 1 <= from < to, a worker count,
\* and at most MaxFail failing remote keys.
Init ==
    /\ mode \in {"run", "stutter"}
    /\ net = 1
    /\ disk = [n \in Networks |-> EmptyDB]
    /\ ts = SteadyTS
    /\ failing \in { F \in SUBSET RemoteKeys : Cardinality(F) <= MaxFail }
    /\ from \in Indices
    /\ to \in { t \in 2..(MaxIndex + 1) : from < t }
    /\ workers \in -1..MaxWorkers
    /\ notifications = [n \in {"Transfer"} |-> 0]
    /\ criteria = DefaultCriteria
    /\ flags = NoFlags
    /\ threshold = 20000
    /\ call = 1
    /\ InitPoolState

Next ==
    \/ Enter
    \/ DispatchCtx
    \/ \E w \in Workers : DispatchErr(w)
    \/ \E w \in Workers : DispatchJob(w)
    \/ LoopEnd
    \/ WaiterClose
    \/ FinalWg
    \/ \E w \in Workers : WorkerCtx(w)
    \/ \E w \in Workers : WorkerAdd(w)
    \/ \E w \in Workers : WorkerBlock(w)
    \/ \E w \in Workers : WorkerNotif(w)
    \/ \E w \in Workers : WorkerDone(w)
    \/ Interrupt
    \/ AfterPrefetch
    \/ ScanRun
    \/ ScanStutter
    \/ ScanEnd
    \/ Deferred

Spec == Init /\ [][Next]_vars

\* The steps of the goroutines: the command's own, the wg.Wait goroutine and
\* the workers. The scheduler runs a goroutine that can take a step; the
\* interrupt signal is under no obligation to arrive.
DispatcherStep ==
    \/ Enter
    \/ DispatchCtx
    \/ \E w \in Workers : DispatchErr(w)
    \/ \E w \in Workers : DispatchJob(w)
    \/ LoopEnd
    \/ FinalWg

WorkerStep(w) ==
    \/ WorkerCtx(w)
    \/ WorkerAdd(w)
    \/ WorkerBlock(w)
    \/ WorkerNotif(w)
    \/ WorkerDone(w)

PoolStep ==
    \/ DispatcherStep
    \/ WaiterClose
    \/ \E w \in Workers : WorkerStep(w)

\* cacheBlocks alone, up to its return, for the run command.
InitPrefetch == Init /\ mode = "run"

NextPrefetch ==
    \/ Enter
    \/ DispatchCtx
    \/ \E w \in Workers : DispatchErr(w)
    \/ \E w \in Workers : DispatchJob(w)
    \/ LoopEnd
    \/ WaiterClose
    \/ FinalWg
    \/ \E w \in Workers : WorkerCtx(w)
    \/ \E w \in Workers : WorkerAdd(w)
    \/ \E w \in Workers : WorkerBlock(w)
    \/ \E w \in Workers : WorkerNotif(w)
    \/ \E w \in Workers : WorkerDone(w)
    \/ Interrupt

FairSpec ==
    /\ InitPrefetch
    /\ [][NextPrefetch]_vars
    /\ WF_vars(PoolStep)

\* Both pools: cacheBlocks of run up to its return, and the explorer's
\* workers serving the calls of its user interface.
InitPools ==
    \/ InitPrefetch
    \/ /\ mode = "explorer"
       /\ net = 1
       /\ disk = [n \in Networks |-> EmptyDB]
       /\ ts = SteadyTS
       /\ failing \in { F \in SUBSET RemoteKeys : Cardinality(F) <= MaxFail }
       /\ from = 0
       /\ to = 0
       /\ workers \in 1..MaxWorkers
       /\ notifications = [n \in {"Transfer"} |-> 0]
       /\ criteria = DefaultCriteria
       /\ flags = NoFlags
       /\ threshold = 20000
       /\ call = 0
       /\ InitPoolState

ExplorerStep ==
    \/ ExplorerStart
    \/ \E f \in Indices : \E t \in Indices : f <= t /\ UICacheBlocks(f, t)
    \/ \E i \in Indices : UICacheNotifications(i)
    \/ ESubmitAdd
    \/ ESelectCtx
    \/ \E w \in Workers : ESelectErr(w)
    \/ \E w \in Workers : ESelectJob(w)
    \/ ELoopEnd
    \/ EWaiterClose
    \/ EFinalWg
    \/ \E w \in Workers : EWorkerCtx(w)
    \/ \E w \in Workers : EWorkerFetch(w)
    \/ \E w \in Workers : EWorkerDone(w)

NextPools == NextPrefetch \/ ExplorerStep

SpecPools == InitPools /\ [][NextPools]_vars

\* ------------------------------------------------- the Chain, call by call
chainUnchanged == << poolVars, callVars, scanVars, paramVars, cancelled >>

\* A user of the package calls Chain.Block(i).
CallBlock(i) ==
    /\ mode = "chain"
    /\ dbOpen
    /\ nops < MaxOps
    /\ nops' = nops + 1
    /\ LET r == Block(disk[DbPath(net)], i) IN
       /\ Apply(r)
       /\ lastCall' = [op |-> "Block", key |-> i, err |-> r.err, res |-> r.res,
                       fetched |-> r.fetched, wrote |-> r.wrote,
                       had |-> BlockKey(i) \in DOMAIN disk[DbPath(net)].blocks,
                       data |-> Get(disk[DbPath(net)].blocks, BlockKey(i)),
                       repeat |-> served[net][i] # NotServed,
                       first |-> served[net][i].blk,
                       reopened |-> served[net][i] # NotServed /\ served[net][i].opens < opens]
       /\ served' = IF r.err = NilErr /\ served[net][i] = NotServed
                    THEN [served EXCEPT ![net][i] = [blk |-> r.res, opens |-> opens]]
                    ELSE served
    /\ UNCHANGED << opens, chainUnchanged >>

\* Chain.Close: the bbolt file is closed; it stays on the disk.
CallClose ==
    /\ mode = "chain"
    /\ dbOpen
    /\ dbOpen' = FALSE
    /\ lastCall' = [NoCall EXCEPT !.op = "Close"]
    /\ UNCHANGED << net, disk, ts, failing, remoteCalls, putCalls, wroteBy, lateWrites, served, nops, opens,
                    chainUnchanged >>

\* chain.Open on an endpoint of network n.
CallOpen(n) ==
    /\ mode = "chain"
    /\ ~dbOpen
    /\ opens < MaxOpens
    /\ dbOpen' = TRUE
    /\ net' = n
    /\ opens' = opens + 1
    /\ lastCall' = [NoCall EXCEPT !.op = "Open"]
    /\ UNCHANGED << disk, ts, failing, remoteCalls, putCalls, wroteBy, lateWrites, served, nops,
                    chainUnchanged >>

\* What a cache directory can hold for block i when a Chain is opened on it:
\* nothing, the block as an earlier run wrote it, or a damaged entry (the
\* encoded block cut short, down to the empty value).
Prefixes(data) == { SubSeq(data, 1, n) : n \in 0..(Len(data) - 1) }

Entries(i) == { << >>, << EncodeBinary([Index |-> i, Timestamp |-> SteadyTS[i], Transactions |-> TxsOf(i)]) >> }
                 \cup { << d >> : d \in Prefixes(EncodeBinary([Index |-> i, Timestamp |-> SteadyTS[i], Transactions |-> TxsOf(i)])) }

\* The blocks bucket holding entry e[i] (none when e[i] is empty) for block i.
RECURSIVE BucketOf(_, _)
BucketOf(e, i) ==
    IF i = 0 THEN << >>
    ELSE IF Len(e[i]) = 0 THEN BucketOf(e, i - 1)
    ELSE Put(BucketOf(e, i - 1), BlockKey(i), e[i][1])

InitChain ==
    /\ mode = "chain"
    /\ net = 1
    /\ \E e \in [Indices -> UNION { Entries(i) : i \in Indices }] :
          /\ \A i \in Indices : e[i] \in Entries(i)
          /\ disk = [n \in Networks |-> IF n = 1 THEN [blocks |-> BucketOf(e, MaxIndex), logs |-> << >>]
                                        ELSE EmptyDB]
    /\ ts = SteadyTS
    /\ failing \in { F \in SUBSET Indices : Cardinality(F) <= MaxFail }
    /\ from = 0
    /\ to = 0
    /\ workers = 0
    /\ notifications = [n \in {"Transfer"} |-> 0]
    /\ criteria = DefaultCriteria
    /\ flags = NoFlags
    /\ threshold = 20000
    /\ call = 0
    /\ InitPoolState

NextChain ==
    \/ \E i \in Indices : CallBlock(i)
    \/ CallClose
    \/ \E n \in Networks : CallOpen(n)

SpecChain == InitChain /\ [][NextChain]_vars

\* ------------------------------------------------------- the Chain's calls
\* A user of the package calls Chain.BlockByHash(h).
CallBlockByHash(h) ==
    /\ mode = "chain"
    /\ dbOpen
    /\ nops < MaxOps
    /\ nops' = nops + 1
    /\ LET r == BlockByHash(disk[DbPath(net)], h) IN
       /\ Apply(r)
       /\ lastCall' = [NoCall EXCEPT !.op = "BlockByHash", !.key = h, !.err = r.err, !.res = r.res,
                                     !.fetched = r.fetched, !.wrote = r.wrote,
                                     !.had = BlockKey(IndexOfHash(h)) \in DOMAIN disk[DbPath(net)].blocks]
    /\ UNCHANGED << served, opens, chainUnchanged >>

\* A user of the package calls Chain.ApplicationLog(h).
CallApplicationLog(h) ==
    /\ mode = "chain"
    /\ dbOpen
    /\ nops < MaxOps
    /\ nops' = nops + 1
    /\ LET r == ApplicationLog(disk[DbPath(net)], h) IN
       /\ Apply(r)
       /\ lastCall' = [NoCall EXCEPT !.op = "ApplicationLog", !.key = h, !.err = r.err,
                                     !.fetched = r.fetched, !.wrote = r.wrote,
                                     !.had = h \in DOMAIN disk[DbPath(net)].logs]
    /\ UNCHANGED << served, opens, chainUnchanged >>

\* The blocks a caller hands to AllNotifications: the blocks of the chain,
\* and a block that lists two transactions.
ApiBlocks ==
    { RemoteBlock(i) : i \in Indices }
        \cup { [Index |-> 2, Timestamp |-> ts[2], Transactions |-> << TxHash(3, 1), TxHash(1, 1) >>] }

\* A user of the package calls Chain.AllNotifications(b).
CallAllNotifications(b) ==
    /\ mode = "chain"
    /\ dbOpen
    /\ nops < MaxOps
    /\ nops' = nops + 1
    /\ LET r == AllNotifications(disk[DbPath(net)], b) IN
       /\ Apply(r)
       /\ lastCall' = [op |-> "AllNotifications", key |-> b.Index, err |-> r.err, res |-> r.res,
                       fetched |-> r.fetched, wrote |-> r.wrote, seen |-> r.seen, arg |-> b]
    /\ UNCHANGED << served, opens, chainUnchanged >>

\* A Chain opened on an empty cache directory, used through its whole API.
InitApi ==
    /\ mode = "chain"
    /\ net = 1
    /\ disk = [n \in Networks |-> EmptyDB]
    /\ ts = SteadyTS
    /\ failing \in { F \in SUBSET RemoteKeys : Cardinality(F) <= MaxFail }
    /\ from = 0
    /\ to = 0
    /\ workers = 0
    /\ notifications = [n \in {"Transfer"} |-> 0]
    /\ criteria = DefaultCriteria
    /\ flags = NoFlags
    /\ threshold = 20000
    /\ call = 0
    /\ InitPoolState

NextApi ==
    \/ \E i \in Indices : CallBlock(i)
    \/ \E i \in Indices : CallBlockByHash(BlockHash(i))
    \/ \E h \in LogHashes : CallApplicationLog(h)
    \/ \E b \in ApiBlocks : CallAllNotifications(b)
    \/ CallClose
    \/ \E n \in Networks : CallOpen(n)

SpecApi == InitApi /\ [][NextApi]_vars

\* ------------------------------------------------------- the block keys
\* Block indices on both sides of the byte boundaries of the 4-byte key.
KeyIndices == {1, 2, 255, 256, 257, 65536}

\* A chain that has the blocks of KeyIndices; addBlock is reached through
\* BlockByHash on an empty cache directory.
InitKeys ==
    /\ mode = "chain"
    /\ net = 1
    /\ disk = [n \in Networks |-> EmptyDB]
    /\ ts = [i \in KeyIndices |-> 15000 * i]
    /\ failing = {}
    /\ from = 0
    /\ to = 0
    /\ workers = 0
    /\ notifications = [n \in {"Transfer"} |-> 0]
    /\ criteria = DefaultCriteria
    /\ flags = NoFlags
    /\ threshold = 20000
    /\ call = 0
    /\ InitPoolState

NextKeys == \E i \in KeyIndices : CallBlockByHash(BlockHash(i))

SpecKeys == InitKeys /\ [][NextKeys]_vars

\* ----------------------------------------------------- the stutter scan
\* Timestamps in milliseconds, half a second apart at the least.
TickValues == { 500 * k : k \in 2..MaxTick }

\* stutter with one worker, no failing fetch and no interrupt, over chains
\* whose block timestamps increase.
InitScan ==
    /\ mode = "stutter"
    /\ net = 1
    /\ disk = [n \in Networks |-> EmptyDB]
    /\ ts \in { f \in [Indices -> TickValues] : \A i \in Indices : i > 1 => f[i - 1] < f[i] }
    /\ failing = {}
    /\ from \in Indices
    /\ to \in { t \in 2..(MaxIndex + 1) : from < t }
    /\ workers = 1
    /\ notifications = [n \in {"Transfer"} |-> 0]
    /\ criteria = DefaultCriteria
    /\ flags = NoFlags
    /\ threshold \in {1000, 1500}
    /\ call = 1
    /\ InitPoolState

NextScan ==
    \/ Enter
    \/ \E w \in Workers : DispatchJob(w)
    \/ LoopEnd
    \/ WaiterClose
    \/ FinalWg
    \/ \E w \in Workers : WorkerCtx(w)
    \/ \E w \in Workers : WorkerAdd(w)
    \/ \E w \in Workers : WorkerBlock(w)
    \/ \E w \in Workers : WorkerNotif(w)
    \/ \E w \in Workers : WorkerDone(w)
    \/ AfterPrefetch
    \/ ScanStutter
    \/ ScanEnd
    \/ Deferred

SpecScan == InitScan /\ [][NextScan]_vars

\* Chains of MaxScanIndex blocks whose timestamps are whole seconds, one or
\* two seconds apart, scanned with a threshold of 1.5 s.
ScanIndices == 1..MaxScanIndex

RECURSIVE GapChains(_)
GapChains(n) ==
    IF n = 1 THEN { << 1000 >> }
    ELSE { Append(c, c[n - 1] + g) : c \in GapChains(n - 1), g \in {1000, 2000} }

InitSkips ==
    /\ mode = "stutter"
    /\ net = 1
    /\ disk = [n \in Networks |-> EmptyDB]
    /\ ts \in GapChains(MaxScanIndex)
    /\ failing = {}
    /\ from \in ScanIndices
    /\ to \in { t \in 2..(MaxScanIndex + 1) : from < t }
    /\ workers = 1
    /\ notifications = [n \in {"Transfer"} |-> 0]
    /\ criteria = DefaultCriteria
    /\ flags = NoFlags
    /\ threshold = 1500
    /\ call = 1
    /\ InitPoolState

SpecSkips == InitSkips /\ [][NextScan]_vars

\* ------------------------------------------------- scans that meet an error
\* run or stutter with one remote key failing, on chains whose timestamps are
\* one or two seconds apart, with a threshold of 1.5 s.
InitAbort ==
    /\ mode \in {"run", "stutter"}
    /\ net = 1
    /\ disk = [n \in Networks |-> EmptyDB]
    /\ ts \in GapChains(MaxIndex)
    /\ failing \in { F \in SUBSET RemoteKeys : Cardinality(F) = 1 }
    /\ from \in Indices
    /\ to \in { t \in 2..(MaxIndex + 1) : from < t }
    /\ workers = 1
    /\ notifications = [n \in {"Transfer"} |-> 0]
    /\ criteria = DefaultCriteria
    /\ flags = NoFlags
    /\ threshold = 1500
    /\ call = 1
    /\ InitPoolState

SpecAbort == InitAbort /\ [][Next]_vars

\* ------------------------------------------------------ the interval flags
\* The numbers a flag can carry, up to and past the largest uint32.
FlagValues == {0, 1, 2, 3, WordMod - 1, WordMod, WordMod + 2}

FromStrings == [kind : {"empty", "num", "m", "junk"}, v : FlagValues]
ToStrings == [kind : {"empty", "num", "p", "junk"}, v : FlagValues]

\* run or stutter started with --from and --to on a chain of the blocks
\* 0..MaxIndex, with one worker, no failing fetch and no interrupt.
InitInterval ==
    /\ mode \in {"run", "stutter"}
    /\ net = 1
    /\ disk = [n \in Networks |-> EmptyDB]
    /\ ts \in { [i \in 0..MaxIndex |-> c[i + 1]] : c \in GapChains(MaxIndex + 1) }
    /\ failing = {}
    /\ flags \in [fromStr : FromStrings, toStr : ToStrings, height : {MaxIndex + 1}]
    /\ from = 0
    /\ to = 0
    /\ workers = 1
    /\ notifications = [n \in {"Transfer"} |-> 0]
    /\ criteria = DefaultCriteria
    /\ threshold = 1500
    /\ call = 1
    /\ InitRestState
    /\ dpc = "flags"

NextInterval ==
    \/ ParseFlags
    \/ NextScan
    \/ ScanRun
    \/ \E w \in Workers : DispatchErr(w)

SpecInterval == InitInterval /\ [][NextInterval]_vars

\* ------------------------------------------------------- run's criteria
\* The -n flags: a notification name and a contract (any, a native name or
\* a script hash), one to MaxCriteria of them.
CriterionNames == {"Transfer", "transfer", "Trans", "NewEpoch", "AddPeer", "UpdateState", "Mint"}

Criterion == [name : CriterionNames, contract : {"*", "GAS", "02"}]

RECURSIVE CriteriaLists(_)
CriteriaLists(n) ==
    IF n = 0 THEN { << >> }
    ELSE CriteriaLists(n - 1) \cup
         { Append(cs, c) : cs \in { l \in CriteriaLists(n - 1) : Len(l) = n - 1 }, c \in Criterion }

\* run over blocks 1 and 2 with one worker, no failing fetch and no
\* interrupt, for every list of criteria.
InitMatch ==
    /\ mode = "run"
    /\ net = 1
    /\ disk = [n \in Networks |-> EmptyDB]
    /\ ts = SteadyTS
    /\ failing = {}
    /\ from = 1
    /\ to = 3
    /\ workers = 1
    /\ criteria \in CriteriaLists(MaxCriteria) \ { << >> }
    /\ flags = NoFlags
    /\ notifications = parseNotifications(criteria, << >>).res
    /\ threshold = 20000
    /\ call = 1
    /\ InitPoolState

NextMatch ==
    \/ Enter
    \/ \E w \in Workers : DispatchJob(w)
    \/ LoopEnd
    \/ WaiterClose
    \/ FinalWg
    \/ \E w \in Workers : WorkerCtx(w)
    \/ \E w \in Workers : WorkerAdd(w)
    \/ \E w \in Workers : WorkerBlock(w)
    \/ \E w \in Workers : WorkerNotif(w)
    \/ \E w \in Workers : WorkerDone(w)
    \/ AfterPrefetch
    \/ ScanRun
    \/ ScanEnd
    \/ Deferred

SpecMatch == InitMatch /\ [][NextMatch]_vars

\* ------------------------------------------------------------------ claims
Range == { i \in Indices : from <= i /\ i < to }

InCacheBlocks == dpc \in {"loop", "final"}

Returned == dpc \in {"returned", "scan", "deferred", "exit"} /\ retVia # "none"

\* Block i and every log of it are in the store.
Stored(i) ==
    /\ BlockKey(i) \in DOMAIN disk[net].blocks
    /\ \A k \in 1..Len(<< BlockHash(i) >> \o TxsOf(i)) :
          (<< BlockHash(i) >> \o TxsOf(i))[k] \in DOMAIN disk[net].logs

\* The remote keys a prefetch of index i needs.
KeysOf(i) == {i, BlockHash(i)} \cup { TxsOf(i)[k] : k \in 1..Len(TxsOf(i)) }

\* C1: when cacheBlocks returns nil, every index of [from, to) has been
\* claimed by a worker whose Block and AllNotifications calls for it have
\* completed successfully, so the block and its logs are in the store.
C1_NilMeansAllFetched ==
    (dpc = "returned" /\ ret = NilErr) =>
        \A i \in Range : claimed[<< 1, i >>] # {} /\ i \in completed /\ Stored(i)

\* C2: with no cancellation raised and a failing fetch in [from, to),
\* cacheBlocks never returns nil: it returns the error of a task that failed.
C2_FailureIsReturned ==
    (dpc = "returned" /\ retVia # "workers" /\ ~cancelled
        /\ (\E i \in Range : KeysOf(i) \cap failing # {})) =>
        (ret # NilErr /\ ret.kind = "fetch" /\ ret.key \in failing)

C4_CacheBlocksReturns == <>(dpc \notin {"entry", "loop", "final"})

C4_Witness ==
    /\ dpc = "returned"
    /\ retVia = "err final"
    /\ waiter = "waiting"
    /\ wg > 0

\* C8: the sequential scan reads a block or prints a line only after
\* cacheBlocks has returned nil; when cacheBlocks returns an error or the
\* interruption, the command returns it with nothing read and nothing printed.
C8_ScanOnlyAfterNil ==
    /\ (dpc = "scan" \/ scanReads > 0 \/ Len(out) > 0 \/ si # 0) => (retVia = "wg" /\ ret = NilErr)
    /\ (Returned /\ ret # NilErr /\ dpc \in {"deferred", "exit"}) =>
          (cmdErr = ret /\ scanReads = 0 /\ Len(out) = 0)

C8_Witness ==
    /\ dpc = "exit"
    /\ ret.kind = "fetch"
    /\ completed # {}
    /\ scanReads = 0
    /\ Len(out) = 0

\* C9: called with workers <= 0, cacheBlocks returns an error at once: no
\* worker is started, no task is handed over, and neither the remote nor the
\* store is touched.
C9_BadWorkerCount ==
    (workers <= 0 /\ dpc # "entry" /\ ~(mode = "stutter" /\ TooShort)) =>
        /\ ret = WorkersErr
        /\ retVia = "workers"
        /\ \A w \in Workers : wpc[w] = "none"
        /\ \A t \in TaskIds : claimed[t] = {} /\ attempts[t] = 0
        /\ remoteCalls = ZeroCalls
        /\ putCalls = ZeroCalls
        /\ disk[net] = EmptyDB

C9_Witness == workers = 0 /\ dpc = "exit" /\ cmdErr = WorkersErr

\* The tasks the submitter of the call under way has handed over so far.
HandedOver ==
    IF mode = "explorer"
    THEN { << call, etasks[k] >> : k \in { j \in 1..Len(etasks) : j < di } }
    ELSE { << call, i >> : i \in { j \in Indices : from <= j /\ j < di } }

\* Worker w has received task t and has not yet made its fetch call.
Holds(w, t) ==
    /\ wcall[w] = t[1]
    /\ wjob[w] = t[2]
    /\ wpc[w] \in {"add", "block", "efetch"}

\* C7: in both pools a task handed over on the job channel is received by
\* exactly one worker, which then makes the task's fetch call: no task has
\* two receivers, none is dropped after the hand-over, none is fetched by a
\* worker that did not receive it, and none is attempted twice in a call.
C7_TaskClaimedOnce ==
    /\ \A t \in TaskIds :
          /\ Cardinality(claimed[t]) <= 1
          /\ attempts[t] <= 1
          /\ attempts[t] = 1 => claimed[t] # {}
          /\ \A w \in claimed[t] : attempts[t] = 1 \/ Holds(w, t)
          /\ claimed[t] # {} => (t \in HandedOver \/ t[1] < call)
    /\ \A t \in HandedOver : claimed[t] # {}

C7_Witness ==
    /\ mode = "explorer"
    /\ call = 2
    /\ attempts[<< 1, 1 >>] = 1
    /\ attempts[<< 2, 1 >>] = 1
    /\ \E w \in Workers : Holds(w, << 2, 2 >>)

Malformed(c) == c.had /\ DecodeErr(c.data)

\* C6: Block(i) on a malformed stored entry returns an error, makes no remote
\* fetch and leaves the entry as it is: it is never handled as a miss.
C6_CorruptEntryIsError ==
    (lastCall.op = "Block" /\ Malformed(lastCall)) =>
        /\ lastCall.err # NilErr
        /\ lastCall.fetched = {}
        /\ Get(disk[net].blocks, BlockKey(lastCall.key)) = lastCall.data

\* The stutter scan has gone through its whole range.
ScanDone == mode = "stutter" /\ dpc \in {"deferred", "exit"} /\ cmdErr = NilErr /\ si = to /\ si # 0

\* How many times the pair (block j-1, block j) is reported.
Reported(j) == Cardinality({ k \in 1..Len(out) : out[k].kind = "stutter" /\ out[k].index = j })

\* C10: the scan over from..to-1 reports the pair (block i, block i+1) exactly
\* once when the difference of the two millisecond timestamps is greater
\* than the threshold, and reports no other pair.
C10_PairsByMilliseconds ==
    ScanDone =>
        \A j \in Range \ {from} :
            Reported(j) = IF ts[j] - ts[j - 1] > threshold THEN 1 ELSE 0

\* Positions of out that hold the second line of a reported stutter pair.
StutterAt == { k \in 1..Len(out) : out[k].kind = "stutter" }

\* The index of the curr block of the stutter reported last before position k
\* of out, 0 when there is none.
LastBefore(k) ==
    LET E == { e \in StutterAt : e < k } IN
    IF E = {} THEN 0 ELSE out[CHOOSE e \in E : \A f \in E : f <= e].index

\* A skip report stands right before the pair whose second line is at k.
SkipBefore(k) == k > 2 /\ out[k - 2].kind = "skipped"

\* C11: a stutter pair (prev, curr) found after an earlier stutter whose curr
\* block has index L is preceded by a skip report iff prev.index - L > 1, the
\* report's value is prev.index - L - 1, the difference is never negative, and
\* lastStutterBlock is the index of the curr block of the pair reported last.
C11_SkipReport ==
    /\ mode = "stutter" => lastStutterBlock = LastBefore(Len(out) + 1)
    /\ \A k \in StutterAt :
          LET prevIndex == out[k - 1].index
              L == LastBefore(k)
          IN /\ out[k - 1].kind = "block"
             /\ prevIndex + 1 = out[k].index
             /\ prevIndex >= L
             /\ SkipBefore(k) <=> (L > 0 /\ prevIndex - L > 1)
             /\ SkipBefore(k) => out[k - 2].n = prevIndex - L - 1

\* A scan has reported two stutters with blocks strictly between them, and
\* two stutters with none between them.
C11_Witness ==
    /\ ScanDone
    /\ \E k \in StutterAt : SkipBefore(k) /\ out[k - 2].n = 1
    /\ \E k \in StutterAt : ~SkipBefore(k) /\ LastBefore(k) > 0 /\ out[k - 1].index - LastBefore(k) = 1

\* run has gone through its whole range.
RunDone == mode = "run" /\ dpc \in {"deferred", "exit"} /\ cmdErr = NilErr /\ si = to /\ si # 0

\* The events of block i on the remote chain, each with the block's index.
RECURSIVE Tagged(_, _)
Tagged(i, evs) ==
    IF Len(evs) = 0 THEN << >>
    ELSE << [index |-> i, name |-> Head(evs).Name, emitter |-> Head(evs).ScriptHash] >>
         \o Tagged(i, Tail(evs))

RECURSIVE TxEvents(_)
TxEvents(hs) == IF Len(hs) = 0 THEN << >> ELSE Events(RemoteLog(Head(hs))) \o TxEvents(Tail(hs))

RECURSIVE EventsIn(_, _)
EventsIn(i, t) ==
    IF ~(i < t) THEN << >>
    ELSE Tagged(i, Events(RemoteLog(BlockHash(i))) \o TxEvents(TxsOf(i))) \o EventsIn(i + 1, t)

\* The events run has reported, as printed.
RECURSIVE ReportedEvents(_)
ReportedEvents(ls) ==
    IF Len(ls) = 0 THEN << >>
    ELSE << [index |-> Head(ls).index, name |-> Head(ls).name, emitter |-> Head(ls).emitter] >>
         \o ReportedEvents(Tail(ls))

\* Criterion c asks for event e: the same name, and any emitter or the
\* emitter the criterion names.
Wanted(c, e) ==
    /\ e.name = c.name
    /\ c.contract = "*" \/ ContractHash(ToLower(c.contract)) = e.emitter

\* C12: with a single criterion, run reports exactly the events of the
\* scanned blocks whose name is the criterion's name and whose emitter is the
\* criterion's, any emitter when the criterion is a wildcard.
C12_SingleCriterion ==
    (RunDone /\ Len(criteria) = 1) =>
        LET Test(e) == Wanted(criteria[1], e)
        IN ReportedEvents(out) = SelectSeq(EventsIn(from, to), Test)

\* run with -n Transfer:02 has reported the one Transfer of emitter 2 and not
\* the Transfer of emitter 1.
C12_Witness ==
    /\ RunDone
    /\ criteria = << [name |-> "Transfer", contract |-> "02"] >>
    /\ ReportedEvents(out) = << [index |-> 1, name |-> "Transfer", emitter |-> 2] >>

\* C20: with several criteria, run reports exactly the events that match at
\* least one of them, also when two criteria have the same name.
C20_AnyCriterion ==
    RunDone =>
        LET Test(e) == \E k \in 1..Len(criteria) : Wanted(criteria[k], e)
        IN ReportedEvents(out) = SelectSeq(EventsIn(from, to), Test)

\* The formatter each name is to be given to.
FormatterByName(name) ==
    CASE name = "Transfer" -> "PrintTransfer"
      [] name = "NewEpoch" -> "PrintNewEpoch"
      [] name = "AddPeer" -> "PrintAddPeer"
      [] name = "UpdateState" -> "PrintUpdateState"
      [] OTHER -> "PrintEvent"

\* C19: every reported event went to the formatter of its name: Transfer,
\* NewEpoch, AddPeer and UpdateState to their own, any other to the generic one.
C19_FormatterByName ==
    mode = "run" =>
        \A k \in 1..Len(out) : out[k].kind = "event" => out[k].fmt = FormatterByName(out[k].name)

\* C13: Chains opened on the same directory for different networks use
\* disjoint stores: the store of a network holds only entries a Chain opened
\* on that network wrote, and a call that is served from the store is served
\* an entry its own network wrote.
C13_NetworksIsolated ==
    mode = "chain" =>
        /\ \A m \in Networks :
              /\ DOMAIN disk[DbPath(m)].blocks \subseteq { BlockKey(i) : i \in wroteBy[m] \cap Indices }
              /\ DOMAIN disk[DbPath(m)].logs \subseteq wroteBy[m]
        /\ (lastCall.op = "Block" /\ lastCall.err = NilErr /\ lastCall.fetched = {})
              => lastCall.key \in wroteBy[net]
        /\ (lastCall.op = "ApplicationLog" /\ lastCall.err = NilErr /\ lastCall.fetched = {})
              => lastCall.key \in wroteBy[net]

\* Block(i) on network 2 misses and fetches although the Chain of network 1
\* has the block in its store.
C13_Witness ==
    /\ mode = "chain"
    /\ net = 2
    /\ lastCall.op = "Block"
    /\ lastCall.err = NilErr
    /\ lastCall.key \in wroteBy[1]
    /\ ~lastCall.had
    /\ lastCall.fetched = {lastCall.key}
    /\ BlockKey(lastCall.key) \in DOMAIN disk[DbPath(1)].blocks

\* C14: no call writes a block entry that is already in the store.
C14_NeverOverwritten ==
    (mode = "chain" /\ lastCall.op \in {"Block", "BlockByHash"}) =>
        ~(lastCall.had /\ lastCall.wrote # {})

\* C15: every BlockByHash call makes one remote fetch, cached or not; after
\* one that succeeded the block is in the store under its index, and Block of
\* that index is served from the store, without a fetch.
C15_ByHashAlwaysFetches ==
    (mode = "chain" /\ lastCall.op = "BlockByHash") =>
        /\ lastCall.fetched = {IndexOfHash(lastCall.key)}
        /\ remoteCalls[IndexOfHash(lastCall.key)] >= 1
        /\ lastCall.err = NilErr =>
              /\ lastCall.wrote = {lastCall.res.Index}
              /\ lastCall.res.Index = IndexOfHash(lastCall.key)
              /\ BlockKey(lastCall.res.Index) \in DOMAIN disk[DbPath(net)].blocks
              /\ Block(disk[DbPath(net)], lastCall.res.Index).err = NilErr
              /\ Block(disk[DbPath(net)], lastCall.res.Index).fetched = {}
              /\ Block(disk[DbPath(net)], lastCall.res.Index).res = lastCall.res

\* BlockByHash has fetched a block that was in the store already.
C15_Witness ==
    /\ mode = "chain"
    /\ lastCall.op = "BlockByHash"
    /\ lastCall.err = NilErr
    /\ lastCall.had
    /\ lastCall.fetched # {}
    /\ remoteCalls[IndexOfHash(lastCall.key)] = 2

\* C16: AllNotifications(b) that succeeds has called ApplicationLog for the
\* block hash and then for each transaction of b in the block's order, once
\* each, and returns the events of these logs in that order.
C16_AllNotificationsOrder ==
    (mode = "chain" /\ lastCall.op = "AllNotifications" /\ lastCall.err = NilErr) =>
        /\ lastCall.seen = << BlockHash(lastCall.arg.Index) >> \o lastCall.arg.Transactions
        /\ Len(lastCall.seen) = 1 + Len(lastCall.arg.Transactions)
        /\ lastCall.res = Events(RemoteLog(BlockHash(lastCall.arg.Index)))
                            \o TxEvents(lastCall.arg.Transactions)

\* AllNotifications of a block that lists two transactions has succeeded.
C16_Witness ==
    /\ mode = "chain"
    /\ lastCall.op = "AllNotifications"
    /\ lastCall.err = NilErr
    /\ Len(lastCall.arg.Transactions) = 2
    /\ Len(lastCall.seen) = 3
    /\ Len(lastCall.res) = 7

\* The indices handed to a worker whose fetches have not been finished.
InFlight == { i \in Range : claimed[<< call, i >>] # {} /\ i \notin completed }

\* C17: the tasks handed over and not finished are never more than the
\* workers, and the dispatcher passes an index on only in a step in which a
\* worker waiting in its select receives it.
C17_Backpressure ==
    /\ [](mode \in {"run", "stutter"} => Cardinality(InFlight) <= IF workers > 0 THEN workers ELSE 0)
    /\ [][(dpc = "loop" /\ di' # di) =>
             \E w \in Workers : /\ w <= workers
                                /\ wpc[w] = "select"
                                /\ wpc'[w] = "add"
                                /\ wjob'[w] = di]_vars

\* Every worker holds a task and the dispatcher waits with the next index.
C17_Witness ==
    /\ workers = 2
    /\ Cardinality(InFlight) = 2
    /\ dpc = "loop"
    /\ di < to
    /\ \A w \in Workers : wpc[w] \in {"add", "block", "notif", "wgdone"}

\* Bytewise order of two keys of the same length, as the store orders keys.
SortsBefore(a, b) ==
    \E p \in 1..Len(a) : (\A q \in 1..(p - 1) : a[q] = b[q]) /\ a[p] < b[p]

\* C18: the keys of the blocks bucket are 4 bytes wide and sort, bytewise, in
\* the order of the indices of the blocks stored under them.
C18_KeysSortByIndex ==
    mode = "chain" =>
        \A k1, k2 \in DOMAIN disk[DbPath(net)].blocks :
            /\ Len(k1) = 4
            /\ DecodeBinary(disk[DbPath(net)].blocks[k1]).Index
                   < DecodeBinary(disk[DbPath(net)].blocks[k2]).Index
               => SortsBefore(k1, k2)

\* parseInterval has returned an interval and no error.
IntervalParsed == flags # NoFlags /\ dpc # "flags" /\ cmdErr \notin {IntervalErr, LatestErr}

\* C30: every interval parseInterval returns without an error has
\* 1 <= from < to, whatever the form and the size of the numbers given.
C30_IntervalWellFormed == IntervalParsed => (1 <= from /\ from < to)

\* The range from <= i < to holds fewer than two blocks.
FewerThanTwo == to - from < 2

\* C21: stutter on a range of fewer than two blocks fails with the range
\* error before the prefetch: no worker is started, nothing is fetched and
\* nothing is printed.
C21_ShortRangeFails ==
    (mode = "stutter" /\ dpc \notin {"flags", "entry"} /\ cmdErr \notin {IntervalErr, LatestErr}
        /\ FewerThanTwo) =>
        /\ cmdErr = RangeErr
        /\ \A w \in Workers : wpc[w] = "none"
        /\ remoteCalls = ZeroCalls
        /\ Len(out) = 0

\* C22: once the context is cancelled every worker of the pool terminates,
\* a worker that is reporting an error included.
C22_CancelStopsWorkers == cancelled ~> (\A w \in Workers : wpc[w] \in {"none", "exit"})

\* C23: a worker whose task returned an error takes no further task: it
\* keeps the task it failed on, makes no other fetch, and is either at its
\* error report or gone.
C23_FailedWorkerStops ==
    [][\A w \in Workers :
          werr[w] # NilErr =>
              /\ wjob'[w] = wjob[w]
              /\ wcall'[w] = wcall[w]
              /\ werr'[w] = werr[w]
              /\ wpc[w] \in {"send", "esend", "exit"}
              /\ wpc'[w] \in {"send", "esend", "exit"}
              /\ \A t \in TaskIds : w \in claimed'[t] => w \in claimed[t]]_vars

\* One worker is at its error report, or gone after it, while the other
\* has received a later task.
C23_Witness ==
    \E w, v \in Workers :
        /\ werr[w] # NilErr
        /\ wpc[w] \in {"send", "esend", "exit"}
        /\ werr[v] = NilErr
        /\ wpc[v] \in {"add", "efetch"}
        /\ wcall[v] = wcall[w]
        /\ wjob[v] # wjob[w]
        /\ attempts[<< wcall[w], wjob[w] >>] = 1

\* C24: whatever is in the store, also what a worker writes after
\* cacheBlocks has returned an error, is the value of its key on the remote
\* chain: a late write stores what any other write of the key stores.
C24_LateWritesHarmless ==
    mode \in {"run", "stutter"} =>
        /\ \A i \in Indices :
              BlockKey(i) \in DOMAIN disk[DbPath(net)].blocks =>
                  disk[DbPath(net)].blocks[BlockKey(i)] = EncodeBinary(RemoteBlock(i))
        /\ \A h \in DOMAIN disk[DbPath(net)].logs :
              disk[DbPath(net)].logs[h] = MarshalJSON(RemoteLog(h))
        /\ lateWrites # {} => ret # NilErr

\* cacheBlocks has returned the error of a failed fetch, and afterwards a
\* worker has written the block and a log of another index.
C24_Witness ==
    /\ ret.kind = "fetch"
    /\ \E i \in Indices :
          /\ i \in lateWrites
          /\ BlockHash(i) \in lateWrites
          /\ i # ret.key
          /\ BlockKey(i) \in DOMAIN disk[DbPath(net)].blocks

\* The hashes AllNotifications(b) is to look up, in order.
HashesOf(b) == << BlockHash(b.Index) >> \o b.Transactions

\* C25: when a lookup of AllNotifications(b) fails, the call returns that
\* error and no event, the failing lookup is its last one, and the logs looked
\* up before it are in the store.
C25_FailurePropagates ==
    (mode = "chain" /\ lastCall.op = "AllNotifications" /\ lastCall.err # NilErr) =>
        /\ lastCall.res = << >>
        /\ Len(lastCall.seen) >= 1
        /\ lastCall.seen = SubSeq(HashesOf(lastCall.arg), 1, Len(lastCall.seen))
        /\ lastCall.err.key = lastCall.seen[Len(lastCall.seen)]
        /\ \A k \in 1..(Len(lastCall.seen) - 1) :
              /\ lastCall.seen[k] \in DOMAIN disk[DbPath(net)].logs
              /\ disk[DbPath(net)].logs[lastCall.seen[k]] = MarshalJSON(RemoteLog(lastCall.seen[k]))
        /\ lastCall.fetched \subseteq { lastCall.seen[k] : k \in 1..Len(lastCall.seen) }

\* The lookup of the first of two transactions fails: the block's log was
\* fetched in this call and is stored, the second transaction was not looked up.
C25_Witness ==
    /\ mode = "chain"
    /\ lastCall.op = "AllNotifications"
    /\ lastCall.err.kind = "fetch"
    /\ Len(lastCall.arg.Transactions) = 2
    /\ Len(lastCall.seen) = 2
    /\ lastCall.wrote = {lastCall.seen[1]}
    /\ lastCall.arg.Transactions[2] \notin DOMAIN disk[DbPath(net)].logs

\* What an error-free stutter scan prints for the pairs (k-1, k), k < hi,
\* last being the second block of the pair printed last (0: none).
RECURSIVE ExpectedStutter(_, _, _)
ExpectedStutter(k, hi, last) ==
    IF ~(k < hi) THEN << >>
    ELSE LET delta == (ts[k] \div 1000) - (ts[k - 1] \div 1000) IN
         IF delta * 1000 > threshold
         THEN (IF last > 0 /\ (k - 1) - last > 1
               THEN << [kind |-> "skipped", n |-> (k - 1) - last - 1] >> ELSE << >>)
              \o << [kind |-> "block", index |-> k - 1],
                    [kind |-> "stutter", index |-> k, delta |-> delta] >>
              \o ExpectedStutter(k + 1, hi, k)
         ELSE ExpectedStutter(k + 1, hi, last)

\* The sequential scan has met an error.
ScanFailed == scanReads > 0 /\ cmdErr # NilErr

WholeSeconds == \A i \in DOMAIN ts : ts[i] % 1000 = 0

\* C27: with whole-second timestamps the comparison is strict: a pair whose
\* delta equals the threshold is never reported, a pair whose delta is one
\* second larger is reported by the finished scan, and the first block of
\* the range is never the second block of a reported pair.
C27_StrictThreshold ==
    (mode = "stutter" /\ WholeSeconds) =>
        /\ Reported(from) = 0
        /\ \A j \in Range \ {from} :
              /\ ts[j] - ts[j - 1] = threshold => Reported(j) = 0
              /\ (ScanDone /\ ts[j] - ts[j - 1] = threshold + 1000) => Reported(j) = 1

\* A finished scan over whole-second blocks has passed a pair whose delta
\* equals the threshold and has reported one whose delta is a second larger.
C27_Witness ==
    /\ ScanDone
    /\ WholeSeconds
    /\ \E j \in Range \ {from} : ts[j] - ts[j - 1] = threshold
    /\ \E j \in Range \ {from} : ts[j] - ts[j - 1] = threshold + 1000 /\ Reported(j) = 1

\* C28: for every range parseInterval accepts, lastStutterBlock > 0 holds
\* exactly when a stutter pair has been reported, and no skip report stands
\* before the first reported pair.
C28_NoSkipBeforeFirstStutter ==
    mode = "stutter" =>
        /\ lastStutterBlock > 0 <=> StutterAt # {}
        /\ \A k \in 1..Len(out) :
              out[k].kind = "skipped" => \E e \in StutterAt : e < k

\* The first pair is reported after blocks of the range that were passed
\* over, and it is the first line printed.
C28_Witness ==
    /\ mode = "stutter"
    /\ flags # NoFlags
    /\ lastStutterBlock > 0
    /\ out[1].kind = "block"
    /\ out[1].index > from + 1

\* run has entered its loop over the blocks.
RunScanning == mode = "run" /\ dpc \in {"scan", "deferred", "exit"} /\ ret = NilErr /\ si # 0

\* run has returned nil.
RunSucceeded == RunScanning /\ dpc \in {"deferred", "exit"} /\ cmdErr = NilErr

\* C29: run goes through the blocks from <= i < to one by one in increasing
\* order, each read once, and a successful run has read them all and none
\* beyond; the reported events are the matching events of the blocks read,
\* ordered by block and, within a block, as AllNotifications returns them.
C29_RunInOrder ==
    RunScanning =>
        /\ from <= si /\ si <= to
        /\ cmdErr = NilErr => scanReads = 2 * (si - from)
        /\ RunSucceeded => si = to
        /\ LET Test(e) == \E k \in 1..Len(criteria) : Wanted(criteria[k], e)
           IN ReportedEvents(out) = SelectSeq(EventsIn(from, si), Test)

\* A successful run that stops before the chain's last block has reported
\* the two Transfer events of block 1 in the order of its log.
C29_Witness ==
    /\ RunSucceeded
    /\ from = 1 /\ to < MaxIndex + 1
    /\ scanReads = 2 * (to - from)
    /\ ReportedEvents(out) = << [index |-> 1, name |-> "Transfer", emitter |-> 1],
                                [index |-> 1, name |-> "Transfer", emitter |-> 2] >>

\* The explorer's last cacheBlocks or cacheNotifications call has returned,
\* or is about to return through wgCh, and ctx was never cancelled.
EReturned ==
    /\ mode = "explorer"
    /\ ~cancelled
    /\ call >= 1
    /\ dpc = "ui" \/ (dpc = "efinal" /\ waiter = "eclosed")

\* A worker has received task key of the call under way and has not yet
\* called wg.Done for it.
EPending(key) ==
    \E w \in Workers : wcall[w] = call /\ wjob[w] = key /\ wpc[w] \in {"efetch", "edone", "esend"}

\* C31: when an explorer call returns and ctx was not cancelled, every task
\* it submitted has been received by a worker, fetched once with success and
\* marked done: the wait never ends while a submitted task is pending.
C31_ExplorerWaitsForAll ==
    EReturned =>
        /\ wg = 0
        /\ \A k \in 1..Len(etasks) :
              /\ claimed[<< call, etasks[k] >>] # {}
              /\ attempts[<< call, etasks[k] >>] = 1
              /\ etasks[k] \in completed
              /\ ~EPending(etasks[k])
              /\ IF IsLogTask(etasks[k])
                 THEN etasks[k] \in DOMAIN disk[DbPath(net)].logs
                 ELSE BlockKey(etasks[k]) \in DOMAIN disk[DbPath(net)].blocks

\* The second call of the explorer, one of several tasks, has returned with
\* two workers and without cancellation.
C31_Witness ==
    /\ EReturned
    /\ dpc = "ui"
    /\ call = 2
    /\ workers = 2
    /\ Len(etasks) >= 2

\* Workers between the wg.Add(1) made for their task and their wg.Done().
Working == { w \in Workers : wpc[w] \in {"block", "notif", "wgdone", "efetch", "edone"} }

\* Workers whose task failed: they report the error and never call wg.Done().
Failed == { w \in Workers : werr[w] # NilErr }

\* The explorer's submitter has called wg.Add(1) for a task it has not yet
\* handed over.
Submitting == IF dpc = "eselect" THEN 1 ELSE 0

\* The explorer's last call left its loop on ctx.Done() after the wg.Add(1)
\* of a task it never handed over.
Abandoned == IF mode = "explorer" /\ dpc = "ui" /\ call >= 1 /\ di <= Len(etasks) THEN 1 ELSE 0

\* C32: in both pools the WaitGroup counter is never negative: it counts the
\* tasks that were added and are not done, so that a wg.Done() always follows
\* the wg.Add(1) of its task, and a failed or abandoned task keeps its
\* increment, the counter staying above zero from then on. (After a
\* cancellation or a panic of the explorer the count of kept increments is
\* a lower bound.)
C32_CounterNeverNegative ==
    /\ wg >= 0
    /\ wg >= Cardinality(Working) + Cardinality(Failed) + Submitting + Abandoned
    /\ (mode # "explorer" \/ (~cancelled /\ dpc # "panic")) =>
          wg = Cardinality(Working) + Cardinality(Failed) + Submitting

\* After a cancellation the explorer has abandoned a task it had counted,
\* other tasks are done, no worker is at work and the counter is not zero.
C32_Witness ==
    /\ Abandoned = 1
    /\ cancelled
    /\ completed # {}
    /\ Working = {}
    /\ wg >= 1

====
